---- MODULE Spec2Model ----
(***************************************************************************)
(* Model of the orthomosaic processing API (src/api.py): the request       *)
(* gateway iniciar_processamento, the background orchestrator              *)
(* executar_processamento_background and the webhook notifier              *)
(* enviar_webhook.                                                         *)
(*                                                                         *)
(* Each POST /processar request r is answered by iniciar_processamento;    *)
(* a valid request schedules one background run.  A run blocks at two      *)
(* kinds of external calls: requests.post (inside enviar_webhook) and      *)
(* processar_ortomosaico.  Those are the interleaving points of the model; *)
(* the code between two of them is one atomic step.  log[r] records, in    *)
(* program order, every call the run makes and every answer it gets.       *)
(* Errors range over subclasses of Exception, identified by str(e).        *)
(***************************************************************************)
EXTENDS Integers, Sequences, FiniteSets, TLC

\* Number of POST /processar requests received.
MaxRequests == 2

Requests == 1..MaxRequests

----------------------------------------------------------------------------
(* Python values *)

\* Python's None and a str value; os.getenv returns one or the other.
None == [isNone |-> TRUE]
Str(s) == [isNone |-> FALSE, s |-> s]

\* Truthiness of an Optional[str]: None and "" are falsy.
Truthy(v) == ~v.isNone /\ v.s # ""

\* Values an environment variable can have: unset, empty, configured.
EnvValues == {None, Str(""), Str("configured")}

\* Values of the request fields (pydantic accepts any str, also "").
IdValues == {"", "p1"}

\* str(e) of the exceptions processar_ortomosaico raises.
ErrorTexts == {"", "falha"}

\* Values processar_ortomosaico returns (by repr).
ReturnValues == {"True", "False", "None"}

\* HTTP status codes the webhook destination answers with.
StatusCodes == {200, 299, 300, 500}

\* Outcomes of requests.post: a response, or a transport exception.
Replies ==
    {[kind |-> "response", code |-> c, text |-> ""] : c \in StatusCodes}
    \cup {[kind |-> "exception", code |-> 0, text |-> "connection refused"]}

\* ValueError text raised when the Supabase credentials are missing.
ConfigErrorText == "Credenciais do Supabase nao configuradas"

----------------------------------------------------------------------------
VARIABLES
    env,        \* process environment: SUPABASE_URL, SUPABASE_KEY, WEBHOOK_URL
    request,    \* request[r]: body of the r-th POST /processar
    resp,       \* resp[r]: HTTP response to the r-th request
    pc,         \* pc[r]: position of request r / of its background run
    exc,        \* exc[r]: str(e) of the exception handled at api.py:122
    result,     \* result[r]: how the background run ended
    log         \* log[r]: calls made and answers received by run r

vars == <<env, request, resp, pc, exc, result, log>>

\* State of the storage gateway (src/sb_connect.py) and of what it acts on.
VARIABLES
    locator,    \* caminho_bucket the gateway operations are called with
    store,      \* storage backend: store[<<bucket, key>>] = bytes of the object
    fs,         \* local files: fs[path] = bytes of the file, None if absent
    dirs,       \* local directories that exist
    trace,      \* what the last gateway operation did, in program order
    ret,        \* how the last gateway operation ended
    uploaded    \* bytes of the last two successful uploads since a delete

svars == <<locator, store, fs, dirs, trace, ret, uploaded>>

allvars == <<vars, svars>>

----------------------------------------------------------------------------
(* enviar_webhook, api.py:57-94 *)

\* api.py:67-70: no URL configured, return without posting.
WebhookSkipsNoneOnly(webhook_url) == webhook_url.isNone
WebhookSkips(webhook_url) == ~Truthy(webhook_url)

\* api.py:72-79: the JSON payload; mensagem is added only when truthy.
BuildPayloadAlways(id_projeto, id_talhao, status, mensagem) ==
    IF ~mensagem.isNone
    THEN [id_projeto |-> id_projeto, id_talhao |-> id_talhao,
          status |-> status, mensagem |-> mensagem.s]
    ELSE [id_projeto |-> id_projeto, id_talhao |-> id_talhao,
          status |-> status]
BuildPayload(id_projeto, id_talhao, status, mensagem) ==
    IF Truthy(mensagem)
    THEN [id_projeto |-> id_projeto, id_talhao |-> id_talhao,
          status |-> status, mensagem |-> mensagem.s]
    ELSE [id_projeto |-> id_projeto, id_talhao |-> id_talhao,
          status |-> status]

\* api.py:81-94: what enviar_webhook does with the outcome of requests.post:
\* the level it logs at, and whether it returns or raises to its caller.
AfterPostPropagates(reply) ==
    IF reply.kind = "response"
    THEN IF reply.code >= 200 /\ reply.code < 300
         THEN [level |-> "info", how |-> "return"]
         ELSE [level |-> "error", how |-> "return"]
    ELSE [level |-> "error", how |-> "raise"]
AfterPostRaiseForStatus(reply) ==
    IF reply.kind = "response"
    THEN IF reply.code >= 200 /\ reply.code < 300
         THEN [level |-> "info", how |-> "return"]
         ELSE [level |-> "error", how |-> "raise"]
    ELSE [level |-> "error", how |-> "return"]
AfterPost(reply) ==
    IF reply.kind = "response"
    THEN IF reply.code >= 200 /\ reply.code < 300
         THEN [level |-> "info", how |-> "return"]
         ELSE [level |-> "error", how |-> "return"]
    ELSE [level |-> "error", how |-> "return"]

----------------------------------------------------------------------------
(* Events of log[r] *)

NotifyEv(status, mensagem) ==
    [ev |-> "notify", status |-> status, mensagem |-> mensagem]
PostEv(payload) == [ev |-> "post", payload |-> payload]
ReplyEv(reply) == [ev |-> "reply", reply |-> reply]
NotifyRetEv(how) == [ev |-> "notify_ret", how |-> how]
ProcCallEv(id_projeto, id_talhao) ==
    [ev |-> "proc_call", id_projeto |-> id_projeto, id_talhao |-> id_talhao]
ProcRetEv(sucesso) == [ev |-> "proc_ret", sucesso |-> sucesso]
ProcRaiseEv(text) == [ev |-> "proc_raise", text |-> text]

----------------------------------------------------------------------------
(* executar_processamento_background, api.py:97-128 *)

\* api.py:110: all([supabase_url, supabase_key]).
CredsOkUrlOnly(supabase_url, supabase_key) == Truthy(supabase_url)
CredsOk(supabase_url, supabase_key) ==
    Truthy(supabase_url) /\ Truthy(supabase_key)

\* api.py:128: the bare raise re-raises the exception being handled.
ReraiseSwallowed(e) == [how |-> "return"]
Reraise(e) == [how |-> "raise", err |-> e]

\* api.py:122-128 up to the first blocking point: the except clause handling
\* an exception with text e, entered with log lg.  It calls
\* enviar_webhook(.., "erro", mensagem=str(e)); without a URL that call
\* returns at once and the exception is re-raised.
EnterExceptNoNotify(r, e, lg) ==
    /\ log' = [log EXCEPT ![r] = lg]
    /\ pc' = [pc EXCEPT ![r] = "raised"]
    /\ result' = result @@ (r :> Reraise(e))
    /\ exc' = exc
EnterExcept(r, e, lg) ==
    LET lg1 == Append(lg, NotifyEv("erro", Str(e)))
        payload == BuildPayload(request[r].id_projeto, request[r].id_talhao,
                                "erro", Str(e))
    IN  IF WebhookSkips(env.WEBHOOK_URL)
        THEN /\ log' = [log EXCEPT ![r] = Append(lg1, NotifyRetEv("return"))]
             /\ pc' = [pc EXCEPT ![r] = "raised"]
             /\ result' = result @@ (r :> Reraise(e))
             /\ exc' = exc
        ELSE /\ log' = [log EXCEPT ![r] = Append(lg1, PostEv(payload))]
             /\ pc' = [pc EXCEPT ![r] = "post_erro"]
             /\ exc' = [exc EXCEPT ![r] = Str(e)]
             /\ result' = result

\* api.py:117-119: the call of processar_ortomosaico, entered with log lg.
CallProcessing(r, lg) ==
    /\ log' = [log EXCEPT ![r] =
                 Append(lg, ProcCallEv(request[r].id_projeto,
                                       request[r].id_talhao))]
    /\ pc' = [pc EXCEPT ![r] = "processing"]
    /\ UNCHANGED <<exc, result>>

\* api.py:99-115: the run starts; credential check, then the "iniciado"
\* webhook up to requests.post.
BeginRunAsyncNotify(r) ==
    /\ pc[r] = "scheduled"
    /\ IF ~CredsOk(env.SUPABASE_URL, env.SUPABASE_KEY)
       THEN EnterExcept(r, ConfigErrorText, log[r])
       ELSE LET lg1 == Append(log[r], NotifyEv("iniciado", None))
                payload == BuildPayload(request[r].id_projeto,
                                        request[r].id_talhao, "iniciado", None)
            IN  IF WebhookSkips(env.WEBHOOK_URL)
                THEN CallProcessing(r, Append(lg1, NotifyRetEv("return")))
                ELSE CallProcessing(r, Append(lg1, PostEv(payload)))
    /\ UNCHANGED <<env, request, resp, svars>>
BeginRun(r) ==
    /\ pc[r] = "scheduled"
    /\ IF ~CredsOk(env.SUPABASE_URL, env.SUPABASE_KEY)
       THEN EnterExcept(r, ConfigErrorText, log[r])
       ELSE LET lg1 == Append(log[r], NotifyEv("iniciado", None))
                payload == BuildPayload(request[r].id_projeto,
                                        request[r].id_talhao, "iniciado", None)
            IN  IF WebhookSkips(env.WEBHOOK_URL)
                THEN CallProcessing(r, Append(lg1, NotifyRetEv("return")))
                ELSE /\ log' = [log EXCEPT ![r] = Append(lg1, PostEv(payload))]
                     /\ pc' = [pc EXCEPT ![r] = "post_iniciado"]
                     /\ UNCHANGED <<exc, result>>
    /\ UNCHANGED <<env, request, resp, svars>>

\* api.py:82-94 then 117-119: requests.post of the "iniciado" webhook ends;
\* enviar_webhook returns and processar_ortomosaico is called.  (Were
\* enviar_webhook to raise, the except clause at api.py:122 would handle it.)
IniciadoReply(r, reply) ==
    /\ pc[r] = "post_iniciado"
    /\ LET how == AfterPost(reply).how
           lg1 == Append(Append(log[r], ReplyEv(reply)), NotifyRetEv(how))
       IN  IF how = "return"
           THEN CallProcessing(r, lg1)
           ELSE EnterExcept(r, reply.text, lg1)
    /\ UNCHANGED <<env, request, resp, svars>>

\* api.py:119-120: processar_ortomosaico returns sucesso; the run logs it
\* and returns.
ProcReturn(r, sucesso) ==
    /\ pc[r] = "processing"
    /\ log' = [log EXCEPT ![r] = Append(log[r], ProcRetEv(sucesso))]
    /\ pc' = [pc EXCEPT ![r] = "returned"]
    /\ result' = result @@ (r :> [how |-> "return"])
    /\ UNCHANGED <<env, request, resp, exc, svars>>

\* api.py:119, 122-125: processar_ortomosaico raises an exception with
\* text e.
ProcRaiseRetry(r, e) ==
    /\ pc[r] = "processing"
    /\ CallProcessing(r, Append(log[r], ProcRaiseEv(e)))
    /\ UNCHANGED <<env, request, resp, svars>>
ProcRaise(r, e) ==
    /\ pc[r] = "processing"
    /\ EnterExcept(r, e, Append(log[r], ProcRaiseEv(e)))
    /\ UNCHANGED <<env, request, resp, svars>>

\* api.py:82-94 then 126-128: requests.post of the "erro" webhook ends;
\* whether enviar_webhook returns or raises (caught at api.py:126), the
\* original exception is re-raised.
ErroReply(r, reply) ==
    /\ pc[r] = "post_erro"
    /\ log' = [log EXCEPT ![r] =
                 Append(Append(log[r], ReplyEv(reply)),
                        NotifyRetEv(AfterPost(reply).how))]
    /\ pc' = [pc EXCEPT ![r] = "raised"]
    /\ result' = result @@ (r :> Reraise(exc[r].s))
    /\ UNCHANGED <<env, request, resp, exc, svars>>

----------------------------------------------------------------------------
(* iniciar_processamento, api.py:131-167 *)

\* api.py:148: the validation of the request body.
InvalidRequest(req) == req.id_projeto = "" \/ req.id_talhao = ""

\* api.py:158-163: the acknowledgement (FastAPI answers 200 by default).
AckResponseConcluido(req) ==
    [code |-> 200, id_projeto |-> req.id_projeto, id_talhao |-> req.id_talhao,
     status |-> "concluido", mensagem |-> "Processamento iniciado com sucesso"]
AckResponse(req) ==
    [code |-> 200, id_projeto |-> req.id_projeto, id_talhao |-> req.id_talhao,
     status |-> "iniciado", mensagem |-> "Processamento iniciado com sucesso"]

\* api.py:149 and 165-167: the HTTPException(400) raised by the validation
\* is an Exception, so the except clause catches it and raises
\* HTTPException(500) with the text of the first as detail.
ErrorResponse(req) ==
    [code |-> 500,
     cause |-> [code |-> 400,
                detail |-> "ID de projeto e talhao sao obrigatorios"]]

\* api.py:146-167: POST /processar with body req.  Requests are numbered in
\* order of arrival.
Submit(r, req) ==
    /\ pc[r] = "new"
    /\ \A q \in Requests : q < r => pc[q] # "new"
    /\ request' = request @@ (r :> req)
    /\ IF InvalidRequest(req)
       THEN /\ resp' = resp @@ (r :> ErrorResponse(req))
            /\ pc' = [pc EXCEPT ![r] = "rejected"]
       ELSE /\ resp' = resp @@ (r :> AckResponse(req))
            /\ pc' = [pc EXCEPT ![r] = "scheduled"]
    /\ UNCHANGED <<env, exc, result, log, svars>>

----------------------------------------------------------------------------
(* Storage gateway, src/sb_connect.py *)

\* Longest caminho_bucket tried, in characters.
MaxLocLen == 5

\* Strings are sequences of characters; caminho_bucket ranges over every
\* string of these characters up to MaxLocLen.
Alphabet == {"a", "/"}
Locators == UNION {[1..n -> Alphabet] : n \in 0..MaxLocLen}

\* File contents.
Bytes == {"B1", "B2"}

\* Local paths the operations are called with, and their ancestor
\* directories (Path.parent and its parents).
LocalPaths == {"in/a.bin", "out/sub/b.bin"}
Parents(path) == IF path = "in/a.bin" THEN {"in"} ELSE {"out", "out/sub"}
AllDirs == UNION {Parents(path) : path \in LocalPaths}

\* str.split('/', 1): at most one split, at the first '/'.
Split1(str) ==
    LET at == {i \in 1..Len(str) : str[i] = "/"}
    IN  IF at = {}
        THEN <<str>>
        ELSE LET i == CHOOSE k \in at : \A j \in at : k <= j
             IN  <<SubSeq(str, 1, i - 1), SubSeq(str, i + 1, Len(str))>>

\* str.rsplit('/', 1): at most one split, at the last '/'.
RSplit1(str) ==
    LET at == {i \in 1..Len(str) : str[i] = "/"}
    IN  IF at = {}
        THEN <<str>>
        ELSE LET i == CHOOSE k \in at : \A j \in at : k >= j
             IN  <<SubSeq(str, 1, i - 1), SubSeq(str, i + 1, Len(str))>>

\* sb_connect.py:73-75, 113-115, 183-185: bucket and caminho_arquivo of a
\* caminho_bucket, as each of the three functions computes them.
ParseBaixar(caminho_bucket) ==
    LET partes == Split1(caminho_bucket)
    IN  [bucket |-> partes[1],
         caminho_arquivo |-> IF Len(partes) > 1 THEN partes[2] ELSE <<>>]

ParseEnviar(caminho_bucket) ==
    LET partes == Split1(caminho_bucket)
    IN  [bucket |-> partes[1],
         caminho_arquivo |-> IF Len(partes) > 1 THEN partes[2] ELSE <<>>]

ParseExcluirLastSlash(caminho_bucket) ==
    LET partes == RSplit1(caminho_bucket)
    IN  [bucket |-> partes[1],
         caminho_arquivo |-> IF Len(partes) > 1 THEN partes[2] ELSE <<>>]
ParseExcluir(caminho_bucket) ==
    LET partes == Split1(caminho_bucket)
    IN  [bucket |-> partes[1],
         caminho_arquivo |-> IF Len(partes) > 1 THEN partes[2] ELSE <<>>]

(* The storage backend behind client.storage.from_(bucket).  fault is a
   failure of the call itself (transport, authorization, timeout). *)

\* .download(key): the bytes of the object, an error if there is none.
BackendDownload(st, bucket, key, fault) ==
    IF fault
    THEN [ok |-> FALSE, err |-> "transport", data |-> ""]
    ELSE IF <<bucket, key>> \notin DOMAIN st
         THEN [ok |-> FALSE, err |-> "not_found", data |-> ""]
         ELSE [ok |-> TRUE, err |-> "", data |-> st[<<bucket, key>>]]

\* .upload(key, file, options): stores the bytes; an existing object is
\* replaced only with the option upsert = "true", else the call is rejected.
BackendUpload(st, bucket, key, data, options, fault) ==
    IF fault
    THEN [ok |-> FALSE, err |-> "transport", store |-> st]
    ELSE IF <<bucket, key>> \in DOMAIN st /\ options.upsert # "true"
         THEN [ok |-> FALSE, err |-> "duplicate", store |-> st]
         ELSE [ok |-> TRUE, err |-> "",
               store |-> [o \in DOMAIN st \cup {<<bucket, key>>} |->
                            IF o = <<bucket, key>> THEN data ELSE st[o]]]

\* .remove(keys): deletes the objects that exist among keys.
BackendRemove(st, bucket, keys, fault) ==
    IF fault
    THEN [ok |-> FALSE, err |-> "transport", store |-> st]
    ELSE [ok |-> TRUE, err |-> "",
          store |-> [o \in DOMAIN st \ {<<bucket, keys[i]>> : i \in 1..Len(keys)}
                       |-> st[o]]]

\* .list(): the keys of the objects of the bucket.
BackendList(st, bucket, fault) ==
    IF fault
    THEN [ok |-> FALSE, err |-> "transport", keys |-> {}]
    ELSE [ok |-> TRUE, err |-> "",
          keys |-> {o[2] : o \in {q \in DOMAIN st : q[1] = bucket}}]

\* .get_public_url(key).
BackendPublicUrl(bucket, key, fault) ==
    IF fault
    THEN [ok |-> FALSE, err |-> "url_error", url |-> <<>>]
    ELSE [ok |-> TRUE, err |-> "", url |-> <<"public", bucket, key>>]

(* Events of trace *)

BackendEv(fn, bucket, key, res) ==
    [ev |-> "backend", fn |-> fn, bucket |-> bucket, key |-> key,
     ok |-> res.ok, err |-> res.err]
ExistsEv(path, found) == [ev |-> "exists", path |-> path, found |-> found]
OpenEv(mode, path) == [ev |-> "open", mode |-> mode, path |-> path]
MkdirEv(path, created) == [ev |-> "mkdir", path |-> path, created |-> created]

(* baixar_arquivo, sb_connect.py:56-94 *)

\* sb_connect.py:92-94: log the error and re-raise it.
BaixarExcept(e) == [op |-> "baixar_arquivo", how |-> "raise", err |-> e]

\* sb_connect.py:71-94: trace, result and local effects of
\* baixar_arquivo(client, caminho_bucket, caminho_local).
baixar_arquivo_open_first(caminho_bucket, caminho_local, fault) ==
    LET p == ParseBaixar(caminho_bucket)
        t1 == <<MkdirEv(caminho_local, Parents(caminho_local) \ dirs),
                OpenEv("wb", caminho_local)>>
        res == BackendDownload(store, p.bucket, p.caminho_arquivo, fault)
        t2 == Append(t1, BackendEv("download", p.bucket, p.caminho_arquivo, res))
    IN  IF ~res.ok
        THEN [trace |-> t2, ret |-> BaixarExcept(res.err),
              fs |-> [fs EXCEPT ![caminho_local] = Str("")],
              dirs |-> dirs \cup Parents(caminho_local)]
        ELSE [trace |-> t2,
              ret |-> [op |-> "baixar_arquivo", how |-> "return",
                       value |-> caminho_local],
              fs |-> [fs EXCEPT ![caminho_local] = Str(res.data)],
              dirs |-> dirs \cup Parents(caminho_local)]
baixar_arquivo(caminho_bucket, caminho_local, fault) ==
    LET p == ParseBaixar(caminho_bucket)
        t1 == <<MkdirEv(caminho_local, Parents(caminho_local) \ dirs)>>
        res == BackendDownload(store, p.bucket, p.caminho_arquivo, fault)
        t2 == Append(t1, BackendEv("download", p.bucket, p.caminho_arquivo, res))
    IN  IF ~res.ok
        THEN [trace |-> t2, ret |-> BaixarExcept(res.err),
              fs |-> fs, dirs |-> dirs \cup Parents(caminho_local)]
        ELSE [trace |-> Append(t2, OpenEv("wb", caminho_local)),
              ret |-> [op |-> "baixar_arquivo", how |-> "return",
                       value |-> caminho_local],
              fs |-> [fs EXCEPT ![caminho_local] = Str(res.data)],
              dirs |-> dirs \cup Parents(caminho_local)]

(* enviar_arquivo, sb_connect.py:96-148 *)

\* sb_connect.py:130: the options of the upload call.
UploadOptionsNoUpsert ==
    [content_type |-> "application/octet-stream", upsert |-> "false"]
UploadOptions ==
    [content_type |-> "application/octet-stream", upsert |-> "true"]

\* sb_connect.py:146-148: log the error and re-raise it.
EnviarExcept(e) == [op |-> "enviar_arquivo", how |-> "raise", err |-> e]

\* sb_connect.py:142-144: get_public_url failed; warn and return None.
AfterUrlFailureRaises(e) == EnviarExcept(e)
AfterUrlFailure(e) ==
    [op |-> "enviar_arquivo", how |-> "return", value |-> None]

\* sb_connect.py:111-148: trace, result and backend effects of
\* enviar_arquivo(client, caminho_local, caminho_bucket).
enviar_arquivo_check_late(caminho_local, caminho_bucket, upFault, urlFault) ==
    LET p == ParseEnviar(caminho_bucket)
        data == IF fs[caminho_local].isNone THEN "" ELSE fs[caminho_local].s
        up == BackendUpload(store, p.bucket, p.caminho_arquivo, data,
                            UploadOptions, upFault)
        t1 == <<BackendEv("upload", p.bucket, p.caminho_arquivo, up),
                ExistsEv(caminho_local, ~fs[caminho_local].isNone)>>
    IN  IF fs[caminho_local].isNone
        THEN [trace |-> t1, ret |-> EnviarExcept("FileNotFoundError"),
              store |-> store, stored |-> FALSE]
        ELSE IF ~up.ok
        THEN [trace |-> t1, ret |-> EnviarExcept(up.err),
              store |-> store, stored |-> FALSE]
        ELSE [trace |-> t1,
              ret |-> [op |-> "enviar_arquivo", how |-> "return",
                       value |-> None],
              store |-> up.store, stored |-> TRUE]
enviar_arquivo(caminho_local, caminho_bucket, upFault, urlFault) ==
    LET p == ParseEnviar(caminho_bucket)
        t0 == <<ExistsEv(caminho_local, ~fs[caminho_local].isNone)>>
    IN  IF fs[caminho_local].isNone
        THEN [trace |-> t0, ret |-> EnviarExcept("FileNotFoundError"),
              store |-> store, stored |-> FALSE]
        ELSE
        LET up == BackendUpload(store, p.bucket, p.caminho_arquivo,
                                fs[caminho_local].s, UploadOptions, upFault)
            t1 == t0 \o <<OpenEv("rb", caminho_local),
                          BackendEv("upload", p.bucket, p.caminho_arquivo, up)>>
        IN  IF ~up.ok
            THEN [trace |-> t1, ret |-> EnviarExcept(up.err),
                  store |-> store, stored |-> FALSE]
            ELSE
            LET url == BackendPublicUrl(p.bucket, p.caminho_arquivo, urlFault)
                t2 == Append(t1, BackendEv("get_public_url", p.bucket,
                                           p.caminho_arquivo, url))
            IN  [trace |-> t2,
                 ret |-> IF url.ok
                         THEN [op |-> "enviar_arquivo", how |-> "return",
                               value |-> Str(url.url)]
                         ELSE AfterUrlFailure(url.err),
                 store |-> up.store, stored |-> TRUE]

(* listar_arquivos, sb_connect.py:150-168 *)

\* sb_connect.py:166-168: log the error and re-raise it.
ListarExcept(e) == [op |-> "listar_arquivos", how |-> "raise", err |-> e]

\* sb_connect.py:161-168: trace and result of listar_arquivos(client, bucket).
listar_arquivos(bucket, fault) ==
    LET res == BackendList(store, bucket, fault)
    IN  [trace |-> <<BackendEv("list", bucket, <<>>, res)>>,
         ret |-> IF res.ok
                 THEN [op |-> "listar_arquivos", how |-> "return",
                       value |-> res.keys]
                 ELSE ListarExcept(res.err)]

(* excluir_arquivo, sb_connect.py:170-197 *)

\* sb_connect.py:195-197: log the error and re-raise it.
ExcluirExceptReturnsTrue(e) ==
    [op |-> "excluir_arquivo", how |-> "return", value |-> TRUE]
ExcluirExcept(e) == [op |-> "excluir_arquivo", how |-> "raise", err |-> e]

\* sb_connect.py:181-197: trace, result and backend effects of
\* excluir_arquivo(client, caminho_bucket).
excluir_arquivo(caminho_bucket, fault) ==
    LET p == ParseExcluir(caminho_bucket)
        res == BackendRemove(store, p.bucket, <<p.caminho_arquivo>>, fault)
    IN  [trace |-> <<BackendEv("remove", p.bucket, p.caminho_arquivo, res)>>,
         ret |-> IF res.ok
                 THEN [op |-> "excluir_arquivo", how |-> "return",
                       value |-> TRUE]
                 ELSE ExcluirExcept(res.err),
         store |-> res.store, removed |-> res.ok]

(* The operations as steps of a caller *)

NoUpload == [prev |-> None, last |-> None]

CallBaixarArquivo(caminho_local, fault) ==
    /\ LET o == baixar_arquivo(locator, caminho_local, fault)
       IN  /\ trace' = o.trace
           /\ ret' = o.ret
           /\ fs' = o.fs
           /\ dirs' = o.dirs
    /\ UNCHANGED <<locator, store, uploaded, vars>>

CallEnviarArquivo(caminho_local, upFault, urlFault) ==
    /\ LET o == enviar_arquivo(caminho_local, locator, upFault, urlFault)
       IN  /\ trace' = o.trace
           /\ ret' = o.ret
           /\ store' = o.store
           /\ uploaded' = IF o.stored
                          THEN [prev |-> uploaded.last, last |-> fs[caminho_local]]
                          ELSE uploaded
    /\ UNCHANGED <<locator, fs, dirs, vars>>

CallListarArquivos(fault) ==
    /\ LET o == listar_arquivos(ParseBaixar(locator).bucket, fault)
       IN  /\ trace' = o.trace
           /\ ret' = o.ret
    /\ UNCHANGED <<locator, store, fs, dirs, uploaded, vars>>

CallExcluirArquivo(fault) ==
    /\ LET o == excluir_arquivo(locator, fault)
       IN  /\ trace' = o.trace
           /\ ret' = o.ret
           /\ store' = o.store
           /\ uploaded' = IF o.removed THEN NoUpload ELSE uploaded
    /\ UNCHANGED <<locator, fs, dirs, vars>>

\* No storage operation has been called: the state of the storage side
\* while the API is exercised.
StorageIdle ==
    /\ locator = <<>>
    /\ store = <<>>
    /\ fs = [path \in LocalPaths |-> None]
    /\ dirs = {}
    /\ trace = <<>>
    /\ ret = [op |-> "none", how |-> "none"]
    /\ uploaded = NoUpload

\* No request has been received: the state of the API side while the
\* storage gateway is exercised.
ApiIdle ==
    /\ env = [SUPABASE_URL |-> Str("configured"),
              SUPABASE_KEY |-> Str("configured"), WEBHOOK_URL |-> None]
    /\ request = <<>>
    /\ resp = <<>>
    /\ pc = [r \in Requests |-> "new"]
    /\ exc = [r \in Requests |-> None]
    /\ result = <<>>
    /\ log = [r \in Requests |-> <<>>]

\* The gateway is called with one caminho_bucket, an empty backend, and any
\* local files; a file that exists has its directories.
InitStorage ==
    /\ ApiIdle
    /\ locator \in Locators
    /\ store = <<>>
    /\ fs \in [LocalPaths -> {None} \cup {Str(b) : b \in Bytes}]
    /\ dirs \in {d \in SUBSET AllDirs :
                   /\ "out/sub" \in d => "out" \in d
                   /\ \A path \in LocalPaths :
                        ~fs[path].isNone => Parents(path) \subseteq d}
    /\ trace = <<>>
    /\ ret = [op |-> "none", how |-> "none"]
    /\ uploaded = NoUpload

NextStorage ==
    \/ \E path \in LocalPaths, fault \in BOOLEAN :
         CallBaixarArquivo(path, fault)
    \/ \E path \in LocalPaths, upFault \in BOOLEAN, urlFault \in BOOLEAN :
         CallEnviarArquivo(path, upFault, urlFault)
    \/ \E fault \in BOOLEAN : CallListarArquivos(fault)
    \/ \E fault \in BOOLEAN : CallExcluirArquivo(fault)

SpecStorage == InitStorage /\ [][NextStorage]_allvars

----------------------------------------------------------------------------
Init ==
    /\ env \in [SUPABASE_URL : EnvValues, SUPABASE_KEY : EnvValues,
                WEBHOOK_URL : EnvValues]
    /\ request = <<>>
    /\ resp = <<>>
    /\ pc = [r \in Requests |-> "new"]
    /\ exc = [r \in Requests |-> None]
    /\ result = <<>>
    /\ log = [r \in Requests |-> <<>>]
    /\ StorageIdle

Next ==
    \/ \E r \in Requests, idp \in IdValues, idt \in IdValues :
         Submit(r, [id_projeto |-> idp, id_talhao |-> idt])
    \/ \E r \in Requests : BeginRun(r)
    \/ \E r \in Requests, reply \in Replies : IniciadoReply(r, reply)
    \/ \E r \in Requests, sucesso \in ReturnValues : ProcReturn(r, sucesso)
    \/ \E r \in Requests, e \in ErrorTexts : ProcRaise(r, e)
    \/ \E r \in Requests, reply \in Replies : ErroReply(r, reply)

Spec == Init /\ [][Next]_allvars

----------------------------------------------------------------------------
(* Observations on log[r] used by the properties *)

EventsOf(r, kind) == SelectSeq(log[r], LAMBDA e : e.ev = kind)
Count(r, kind) == Len(EventsOf(r, kind))

\* The statuses of the enviar_webhook calls of run r, in order.
NotifyStatuses(r) ==
    LET n == EventsOf(r, "notify") IN [i \in 1..Len(n) |-> n[i].status]

\* The payloads run r posted with a given status.
PostedWith(r, status) ==
    {log[r][i].payload : i \in {j \in 1..Len(log[r]) :
        /\ log[r][j].ev = "post"
        /\ log[r][j].payload.status = status}}

HasField(payload, field) == field \in DOMAIN payload

Done(r) == r \in DOMAIN result
ProcRaised(r) == Count(r, "proc_raise") > 0
ProcReturned(r) == Count(r, "proc_ret") > 0
RaisedText(r) == EventsOf(r, "proc_raise")[1].text
\* Both storage credentials are set and non-empty in the environment.
CredsPresent == Truthy(env.SUPABASE_URL) /\ Truthy(env.SUPABASE_KEY)

----------------------------------------------------------------------------
(* C1 *)

\* C1: every finished run has made exactly the notifications "iniciado"
\* followed by one terminal notification, "concluido" or "erro".
C1_StartedThenOneTerminal ==
    \A r \in Requests : Done(r) =>
        NotifyStatuses(r) \in {<<"iniciado", "concluido">>,
                               <<"iniciado", "erro">>}

(* C2 *)

\* C2: a request with an empty id_projeto or id_talhao is answered with
\* HTTP 400 and schedules no run.
C2_EmptyIdAnswered400 ==
    \A r \in DOMAIN resp : InvalidRequest(request[r]) =>
        /\ resp[r].code = 400
        /\ pc[r] = "rejected"
        /\ log[r] = <<>>

(* C3 *)

\* C3 as stated: when processar_ortomosaico raises an exception with text
\* T, every "erro" payload the run posts has a mensagem field that is
\* non-empty and equal to T, also for T = "".
C3_FailedPayloadHasMessage ==
    \A r \in Requests : ProcRaised(r) =>
        \A p \in PostedWith(r, "erro") :
            /\ HasField(p, "mensagem")
            /\ p.mensagem # ""
            /\ p.mensagem = RaisedText(r)

\* C3 amended: when processar_ortomosaico raises an exception with text T,
\* the run calls enviar_webhook once with status "erro" and mensagem T and
\* never with "concluido"; with WEBHOOK_URL configured the payload it posts
\* has status "erro", and carries mensagem = T when T is non-empty and no
\* mensagem field when T is empty.
C3_FailedPayloadMessageIffNonEmpty ==
    \A r \in Requests : ProcRaised(r) =>
        LET T == RaisedText(r) IN
        /\ EventsOf(r, "notify") =
             <<NotifyEv("iniciado", None), NotifyEv("erro", Str(T))>>
        /\ Truthy(env.WEBHOOK_URL) => Cardinality(PostedWith(r, "erro")) = 1
        /\ \A p \in PostedWith(r, "erro") :
             /\ p.id_projeto = request[r].id_projeto
             /\ p.id_talhao = request[r].id_talhao
             /\ HasField(p, "mensagem") <=> T # ""
             /\ T # "" => p.mensagem = T

C3_Witness ==
    \E r1, r2 \in Requests :
        /\ Done(r1) /\ ProcRaised(r1) /\ RaisedText(r1) = ""
        /\ PostedWith(r1, "erro") # {}
        /\ Done(r2) /\ ProcRaised(r2) /\ RaisedText(r2) # ""
        /\ PostedWith(r2, "erro") # {}

(* C4 *)

\* C4: with SUPABASE_URL or SUPABASE_KEY absent, a run never calls
\* enviar_webhook with "iniciado" and never calls processar_ortomosaico;
\* once started it has called enviar_webhook exactly once, with "erro" and
\* the text of the configuration error, any payload it posts carries that
\* text, and it ends by raising the configuration error.
C4_CredentialCheckFirst ==
    ~CredsPresent =>
        \A r \in Requests :
            /\ Count(r, "proc_call") = 0
            /\ \A i \in 1..Len(log[r]) :
                 log[r][i].ev = "notify" => log[r][i].status # "iniciado"
            /\ PostedWith(r, "iniciado") = {}
            /\ pc[r] \in {"new", "rejected", "scheduled", "post_erro", "raised"}
            /\ pc[r] \in {"post_erro", "raised"} =>
                 /\ EventsOf(r, "notify") =
                      <<NotifyEv("erro", Str(ConfigErrorText))>>
                 /\ \A p \in PostedWith(r, "erro") :
                      HasField(p, "mensagem") /\ p.mensagem = ConfigErrorText
            /\ Done(r) => result[r] = [how |-> "raise", err |-> ConfigErrorText]

C4_Witness ==
    /\ ~CredsPresent
    /\ Truthy(env.SUPABASE_URL)
    /\ \E r \in Requests :
         /\ Done(r)
         /\ PostedWith(r, "erro") # {}

(* C5 *)

\* C5: a run in which processar_ortomosaico raised an exception with text
\* T ends only by raising that exception, whatever happened to the "erro"
\* webhook: delivered, rejected, transport exception, or skipped.
C5_OriginalErrorReraised ==
    \A r \in Requests :
        /\ ProcRaised(r) => pc[r] \in {"post_erro", "raised"}
        /\ ProcRaised(r) /\ Done(r) =>
             result[r] = [how |-> "raise", err |-> RaisedText(r)]
        /\ ProcRaised(r) /\ pc[r] = "post_erro" => exc[r] = Str(RaisedText(r))

C5_Witness ==
    \E r1, r2 \in Requests :
        /\ Done(r1) /\ ProcRaised(r1)
        /\ \E i \in 1..Len(log[r1]) :
             /\ log[r1][i].ev = "reply"
             /\ log[r1][i].reply.kind = "exception"
             /\ i > 1 /\ log[r1][i-1].ev = "post"
             /\ log[r1][i-1].payload.status = "erro"
        /\ Done(r2) /\ ProcRaised(r2)
        /\ \E i \in 1..Len(log[r2]) :
             /\ log[r2][i].ev = "reply"
             /\ log[r2][i].reply.kind = "response"
             /\ log[r2][i].reply.code = 500
             /\ i > 1 /\ log[r2][i-1].ev = "post"
             /\ log[r2][i-1].payload.status = "erro"

(* C6 *)

\* C6: a run in which processar_ortomosaico returned normally has called
\* enviar_webhook with "concluido", never with "erro", and has not raised.
C6_NormalReturnNotifiesCompleted ==
    \A r \in Requests : ProcReturned(r) /\ Done(r) =>
        /\ \E i \in 1..Len(log[r]) :
             log[r][i].ev = "notify" /\ log[r][i].status = "concluido"
        /\ \A i \in 1..Len(log[r]) :
             log[r][i].ev = "notify" => log[r][i].status # "erro"
        /\ result[r].how = "return"

(* C7 *)

\* C7: with the credentials present, two finished runs of valid requests
\* for the same (id_projeto, id_talhao) have each made their own call of
\* processar_ortomosaico with those ids, their own "iniciado" notification
\* and their own terminal notification ("concluido" or "erro").
C7_SamePlotRunsEachNotifyTerminal ==
    CredsPresent =>
        \A r1, r2 \in Requests :
            (/\ r1 # r2
             /\ Done(r1) /\ Done(r2)
             /\ request[r1] = request[r2]) =>
                \A r \in {r1, r2} :
                    /\ EventsOf(r, "proc_call") =
                         <<ProcCallEv(request[r].id_projeto,
                                      request[r].id_talhao)>>
                    /\ Len(NotifyStatuses(r)) = 2
                    /\ NotifyStatuses(r)[1] = "iniciado"
                    /\ NotifyStatuses(r)[2] \in {"concluido", "erro"}

(* C8 *)

\* C8: every valid request has been answered with the acknowledgement
\* (HTTP 200, status "iniciado") by the time its run is scheduled, and the
\* answer is that same acknowledgement in every later state of the run:
\* not started, posting, blocked in processar_ortomosaico, returned, or
\* raised on configuration or in processing.
C8_AckIndependentOfRun ==
    \A r \in DOMAIN request : ~InvalidRequest(request[r]) =>
        /\ r \in DOMAIN resp
        /\ resp[r] = [code |-> 200,
                      id_projeto |-> request[r].id_projeto,
                      id_talhao |-> request[r].id_talhao,
                      status |-> "iniciado",
                      mensagem |-> "Processamento iniciado com sucesso"]
        /\ pc[r] \in {"scheduled", "post_iniciado", "processing",
                      "post_erro", "returned", "raised"}

C8_Witness ==
    \E r1, r2 \in Requests :
        /\ pc[r1] = "processing" /\ resp[r1].status = "iniciado"
        /\ pc[r2] = "raised" /\ resp[r2].status = "iniciado"

(* C9 *)

\* C9: with WEBHOOK_URL unset or empty, no run ever posts: every call of
\* enviar_webhook has returned normally at once; and a finished run whose
\* credentials were present has called processar_ortomosaico exactly once.
C9_NoUrlNoPost ==
    ~Truthy(env.WEBHOOK_URL) =>
        \A r \in Requests :
            /\ Count(r, "post") = 0
            /\ Count(r, "reply") = 0
            /\ pc[r] \notin {"post_iniciado", "post_erro"}
            /\ \A i \in 1..Len(log[r]) : log[r][i].ev = "notify" =>
                 /\ i < Len(log[r])
                 /\ log[r][i+1] = NotifyRetEv("return")
            /\ Done(r) /\ CredsPresent => Count(r, "proc_call") = 1

C9_Witness ==
    /\ env.WEBHOOK_URL = Str("")
    /\ \E r1, r2 \in Requests :
         /\ pc[r1] = "returned" /\ Count(r1, "notify") = 1
         /\ pc[r2] = "raised" /\ Count(r2, "notify") = 2

(* C10 *)

\* C10: with WEBHOOK_URL configured, every call of enviar_webhook is
\* followed by exactly one POST of the payload built from its arguments,
\* and, whatever the outcome of that POST (2xx, non-2xx, transport
\* exception), by a normal return: the log of a run is made of
\* notify, post, reply, notify_ret("return") groups, the last one possibly
\* still waiting for its reply.
C10_OnePostPerNotifyNeverRaises ==
    Truthy(env.WEBHOOK_URL) =>
        \A r \in Requests :
            /\ \A i \in 1..Len(log[r]) :
                 /\ log[r][i].ev = "notify" =>
                      /\ i < Len(log[r])
                      /\ log[r][i+1] =
                           PostEv(BuildPayload(request[r].id_projeto,
                                               request[r].id_talhao,
                                               log[r][i].status,
                                               log[r][i].mensagem))
                 /\ log[r][i].ev = "post" =>
                      /\ i > 1 /\ log[r][i-1].ev = "notify"
                      /\ IF i = Len(log[r])
                         THEN pc[r] \in {"post_iniciado", "post_erro"}
                         ELSE /\ log[r][i+1].ev = "reply"
                              /\ i + 1 < Len(log[r])
                              /\ log[r][i+2] = NotifyRetEv("return")
                 /\ log[r][i].ev = "reply" => i > 1 /\ log[r][i-1].ev = "post"
                 /\ log[r][i].ev = "notify_ret" =>
                      /\ log[r][i].how = "return"
                      /\ i > 1 /\ log[r][i-1].ev = "reply"
            /\ Count(r, "post") = Count(r, "notify")

C10_Witness ==
    \E r \in Requests :
        /\ Done(r)
        /\ \E i, j \in 1..Len(log[r]) :
             /\ log[r][i].ev = "reply" /\ log[r][i].reply.kind = "exception"
             /\ log[r][j].ev = "reply" /\ log[r][j].reply.code = 300
             /\ log[r][i+1] = NotifyRetEv("return")
             /\ log[r][j+1] = NotifyRetEv("return")
        /\ \E q \in Requests :
             \E i \in 1..Len(log[q]) :
                 log[q][i].ev = "reply" /\ log[q][i].reply.code = 299

(* C15 *)

\* Position in log[r] of the reply to the run's "iniciado" POST, 0 if none.
IniciadoReplyAt(r) ==
    LET at == {i \in 2..Len(log[r]) :
                 /\ log[r][i].ev = "reply"
                 /\ log[r][i-1].ev = "post"
                 /\ log[r][i-1].payload.status = "iniciado"}
    IN  IF at = {} THEN 0 ELSE CHOOSE i \in at : TRUE

\* The reply is a failure of the webhook: non-2xx or transport exception.
FailedReply(reply) ==
    reply.kind = "exception" \/ reply.code < 200 \/ reply.code >= 300

\* C15: when the "iniciado" POST of a run got a non-2xx response or a
\* transport exception, enviar_webhook returned normally and the next thing
\* the run did was to call processar_ortomosaico; the run then ends by
\* returning exactly when processing returned and by raising the processing
\* error exactly when processing raised.
C15_StartedFailureDoesNotAbort ==
    \A r \in Requests :
        LET i == IniciadoReplyAt(r) IN
        (i > 0 /\ FailedReply(log[r][i].reply)) =>
            /\ Len(log[r]) >= i + 2
            /\ log[r][i+1] = NotifyRetEv("return")
            /\ log[r][i+2] = ProcCallEv(request[r].id_projeto,
                                        request[r].id_talhao)
            /\ Done(r) =>
                 \/ ProcReturned(r) /\ result[r] = [how |-> "return"]
                 \/ /\ ProcRaised(r)
                    /\ result[r] = [how |-> "raise", err |-> RaisedText(r)]

C15_Witness ==
    \E r1, r2 \in Requests :
        /\ IniciadoReplyAt(r1) > 0 /\ IniciadoReplyAt(r2) > 0
        /\ log[r1][IniciadoReplyAt(r1)].reply.kind = "exception"
        /\ log[r2][IniciadoReplyAt(r2)].reply.code = 500
        /\ pc[r1] = "returned"
        /\ pc[r2] = "raised"

(* C16 *)

\* C16: in the log of a run, the call of processar_ortomosaico comes right
\* after the return of the "iniciado" enviar_webhook call, which is the only
\* notification before it; the event after the call is the return or the
\* raise of processing; every "concluido" or "erro" notification of a run
\* that called processing comes after that return or raise; and a run that
\* is inside processar_ortomosaico has no POST in flight.
C16_NotifyProcessingOrder ==
    \A r \in Requests :
        /\ \A i \in 1..Len(log[r]) : log[r][i].ev = "proc_call" =>
             /\ i > 1 /\ log[r][i-1].ev = "notify_ret"
             /\ \A j \in 1..(i-1) : log[r][j].ev = "notify" =>
                  log[r][j].status = "iniciado"
             /\ Len(SelectSeq(SubSeq(log[r], 1, i - 1),
                              LAMBDA e : e.ev = "notify")) =
                Len(SelectSeq(SubSeq(log[r], 1, i - 1),
                              LAMBDA e : e.ev = "notify_ret"))
             /\ Len(SelectSeq(SubSeq(log[r], 1, i - 1),
                              LAMBDA e : e.ev = "post")) =
                Len(SelectSeq(SubSeq(log[r], 1, i - 1),
                              LAMBDA e : e.ev = "reply"))
             /\ i < Len(log[r]) => log[r][i+1].ev \in {"proc_ret", "proc_raise"}
             /\ \A j \in 1..Len(log[r]) :
                  (/\ log[r][j].ev = "notify"
                   /\ log[r][j].status \in {"concluido", "erro"}) => j > i + 1
        /\ pc[r] = "processing" <=>
             (log[r] # <<>> /\ log[r][Len(log[r])].ev = "proc_call")

C16_Witness ==
    \E r1, r2 \in Requests :
        /\ pc[r1] = "processing" /\ Count(r1, "reply") = 1
        /\ pc[r2] = "raised" /\ Count(r2, "reply") = 2
        /\ ProcRaised(r2)

(* C17 *)

\* C17: a run calls processar_ortomosaico at most once; a finished run
\* called it exactly once if the credentials were present, also when the
\* call raised, and a run never calls it if they were absent.
C17_ProcessingCalledOnce ==
    \A r \in Requests :
        /\ Count(r, "proc_call") <= 1
        /\ Count(r, "proc_ret") + Count(r, "proc_raise") <= Count(r, "proc_call")
        /\ Done(r) /\ CredsPresent => Count(r, "proc_call") = 1
        /\ ~CredsPresent => Count(r, "proc_call") = 0

C17_Witness ==
    \E r \in Requests :
        /\ Done(r) /\ ProcRaised(r)
        /\ Count(r, "proc_call") = 1

(* C19 *)

\* The number of enviar_webhook calls of run r with the given status.
NotifyCount(r, status) ==
    Len(SelectSeq(log[r], LAMBDA e : e.ev = "notify" /\ e.status = status))

\* C19: a run calls enviar_webhook with "erro" at most once and makes at
\* most two enviar_webhook calls; a finished run has made the "erro" call
\* exactly when it ended by raising (configuration or processing error),
\* and a run that made it ends only by raising.
C19_FailedIffRaised ==
    \A r \in Requests :
        /\ NotifyCount(r, "erro") <= 1
        /\ Count(r, "notify") <= 2
        /\ Done(r) => (NotifyCount(r, "erro") = 1 <=> result[r].how = "raise")
        /\ NotifyCount(r, "erro") = 1 => pc[r] \in {"post_erro", "raised"}

C19_Witness ==
    \E r1, r2 \in Requests :
        /\ Done(r1) /\ result[r1].how = "raise" /\ ProcRaised(r1)
        /\ Count(r1, "notify") = 2 /\ NotifyCount(r1, "erro") = 1
        /\ Done(r2) /\ result[r2].how = "return"
        /\ NotifyCount(r2, "erro") = 0

----------------------------------------------------------------------------
(* Observations on trace used by the storage properties *)

\* The backend calls of the last operation, in order.
BackendCalls == SelectSeq(trace, LAMBDA e : e.ev = "backend")
CallsOf(fn) == SelectSeq(trace, LAMBDA e : e.ev = "backend" /\ e.fn = fn)
Opens == SelectSeq(trace, LAMBDA e : e.ev = "open")
HasSlash(str) == \E i \in 1..Len(str) : str[i] = "/"

(* C11 *)

\* C11: when the last operation is an enviar_arquivo that found its local
\* path missing, it raised FileNotFoundError, made no backend call at all
\* (no upload, no get_public_url), opened no file and stored nothing, for
\* every caminho_bucket.
C11_MissingFileNoBackendCall ==
    (/\ ret.op = "enviar_arquivo"
     /\ \E i \in 1..Len(trace) : trace[i].ev = "exists" /\ ~trace[i].found) =>
        /\ ret = [op |-> "enviar_arquivo", how |-> "raise",
                  err |-> "FileNotFoundError"]
        /\ BackendCalls = <<>>
        /\ Opens = <<>>

C11_Witness ==
    /\ ret.op = "enviar_arquivo"
    /\ ret.how = "raise" /\ ret.err = "FileNotFoundError"
    /\ trace = <<ExistsEv("in/a.bin", FALSE)>>
    /\ locator = <<"a", "/", "a", "/", "a">>
    /\ store # <<>>

(* C12 *)

\* C12: every download, upload, get_public_url and remove call of the
\* gateway addresses the bucket and key obtained by cutting caminho_bucket
\* at its first '/': the bucket has no '/', and caminho_bucket is
\* bucket + '/' + key when it has a '/', and is the bucket, with an empty
\* key, when it has none.
C12_SplitOnFirstSlash ==
    \A i \in 1..Len(trace) :
        (trace[i].ev = "backend" /\ trace[i].fn # "list") =>
            /\ ~HasSlash(trace[i].bucket)
            /\ IF HasSlash(locator)
               THEN locator = trace[i].bucket \o <<"/">> \o trace[i].key
               ELSE trace[i].bucket = locator /\ trace[i].key = <<>>

C12_Witness ==
    /\ locator = <<"a", "/", "a", "/", "a">>
    /\ ret.op = "excluir_arquivo"
    /\ trace[1].bucket = <<"a">>
    /\ trace[1].key = <<"a", "/", "a">>
    /\ store = <<>>
    /\ fs["in/a.bin"] = Str("B1")

(* C13 *)

\* C13: a successful baixar_arquivo leaves in its destination file exactly
\* the bytes of the most recent successful enviar_arquivo to the same
\* caminho_bucket; the backend then holds those bytes as its one object; and
\* enviar_arquivo of an existing file is never rejected because an object
\* already exists at the key: it fails only on a fault of the upload call.
C13_RoundTripUpsert ==
    /\ (ret.op = "baixar_arquivo" /\ ret.how = "return") =>
         /\ ~uploaded.last.isNone
         /\ fs[ret.value] = uploaded.last
    /\ IF uploaded.last.isNone
       THEN store = <<>>
       ELSE /\ Cardinality(DOMAIN store) = 1
            /\ \A o \in DOMAIN store : store[o] = uploaded.last.s
    /\ (/\ ret.op = "enviar_arquivo" /\ ret.how = "raise"
        /\ ret.err # "FileNotFoundError") => ret.err = "transport"

C13_Witness ==
    /\ ret.op = "baixar_arquivo" /\ ret.how = "return"
    /\ uploaded = [prev |-> Str("B1"), last |-> Str("B2")]
    /\ ret.value = "in/a.bin"
    /\ fs["in/a.bin"] = Str("B2")

(* C14 *)

\* C14: in enviar_arquivo, when the upload call succeeded and
\* get_public_url failed, the operation returned None without raising and
\* the object is stored at the parsed bucket and key with the bytes of the
\* local file; when the upload call failed, the operation raised that
\* error and get_public_url was not called.
C14_UrlFailureKeepsUpload ==
    ret.op = "enviar_arquivo" =>
        /\ \A i \in 1..Len(trace) :
             (/\ trace[i].ev = "backend" /\ trace[i].fn = "get_public_url"
              /\ ~trace[i].ok) =>
                 /\ ret = [op |-> "enviar_arquivo", how |-> "return",
                           value |-> None]
                 /\ Len(CallsOf("upload")) = 1 /\ CallsOf("upload")[1].ok
                 /\ <<trace[i].bucket, trace[i].key>> \in DOMAIN store
                 /\ Len(Opens) = 1
                 /\ Str(store[<<trace[i].bucket, trace[i].key>>]) =
                      fs[Opens[1].path]
        /\ \A i \in 1..Len(trace) :
             (/\ trace[i].ev = "backend" /\ trace[i].fn = "upload"
              /\ ~trace[i].ok) =>
                 /\ ret.how = "raise" /\ ret.err = trace[i].err
                 /\ CallsOf("get_public_url") = <<>>

C14_Witness ==
    /\ ret = [op |-> "enviar_arquivo", how |-> "return", value |-> None]
    /\ Len(CallsOf("get_public_url")) = 1
    /\ ~CallsOf("get_public_url")[1].ok
    /\ store # <<>>

(* C18 *)

\* C18: each gateway operation makes at most one call of each backend
\* function; when its download, upload, list or remove call failed, that
\* call was the last thing it did and it raised the error of that call;
\* excluir_arquivo returned True only after a remove call that succeeded;
\* and a failure of get_public_url is the one failure after which the
\* operation returned.
C18_BackendFailurePropagates ==
    /\ \A fn \in {"download", "upload", "list", "remove", "get_public_url"} :
         Len(CallsOf(fn)) <= 1
    /\ \A i \in 1..Len(trace) :
         (trace[i].ev = "backend" /\ ~trace[i].ok) =>
             IF trace[i].fn = "get_public_url"
             THEN ret.how = "return"
             ELSE /\ i = Len(trace)
                  /\ ret.how = "raise"
                  /\ ret.err = trace[i].err
    /\ (ret.op = "excluir_arquivo" /\ ret.how = "return") =>
         /\ ret.value = TRUE
         /\ CallsOf("remove") # <<>> /\ CallsOf("remove")[1].ok
    /\ ret.how = "return" =>
         \A i \in 1..Len(trace) :
             (trace[i].ev = "backend" /\ trace[i].fn # "get_public_url") =>
                 trace[i].ok

C18_Witness ==
    /\ ret = [op |-> "excluir_arquivo", how |-> "raise", err |-> "transport"]
    /\ Len(CallsOf("remove")) = 1
    /\ store # <<>>

(* C20 *)

\* C20: a step in which baixar_arquivo raised leaves every local file as it
\* was, absent or with its content; such an operation opened no file, its
\* fetch failed, and the directories of its destination exist; and when
\* baixar_arquivo opens its destination, it does so after a fetch that
\* succeeded.
C20_FailedDownloadKeepsFile ==
    /\ [][(ret'.op = "baixar_arquivo" /\ ret'.how = "raise") => fs' = fs]_allvars
    /\ [](ret.op = "baixar_arquivo" =>
            /\ trace[1].ev = "mkdir"
            /\ Parents(trace[1].path) \subseteq dirs
            /\ Len(CallsOf("download")) = 1
            /\ IF ret.how = "raise"
               THEN Opens = <<>> /\ ~CallsOf("download")[1].ok
               ELSE /\ CallsOf("download")[1].ok
                    /\ trace[Len(trace)] = OpenEv("wb", trace[1].path)
                    /\ trace[Len(trace) - 1].ev = "backend")

C20_Witness ==
    /\ ret.op = "baixar_arquivo" /\ ret.how = "raise"
    /\ trace[1].path = "out/sub/b.bin"
    /\ trace[1].created = {"out", "out/sub"}
    /\ fs["out/sub/b.bin"].isNone
    /\ fs["in/a.bin"] = Str("B1")

====
